---- MODULE Spec2Model ----
(***************************************************************************)
(* A state-machine model of sigmaengine (src/engine.py): the Scene entity  *)
(* list and its traversals, the SigmaEngine scene table and main loop, the *)
(* InputManager frame snapshot, the AnimatedSprite clip player and the     *)
(* PhysicsBody integrator.                                                 *)
(*                                                                         *)
(* Each subsystem has its own specification (SpecScene, SpecEngine,        *)
(* SpecLoop, SpecInput, SpecAnim, SpecPhysics) over the one set of         *)
(* variables; a specification leaves the variables of the other            *)
(* subsystems unchanged. Variables marked "history" record calls made and  *)
(* are read by the properties only, never by the modelled code.            *)
(* Scene.on_enter / on_exit and Entity.handle_event are the base classes'  *)
(* empty methods: they make no engine calls of their own.                  *)
(***************************************************************************)
EXTENDS Integers, Sequences, FiniteSets, TLC

VARIABLES
    \* ---- Scene (src/engine.py 137-166)
    entities,          \* Scene.entities: the ordered entity list
    lastTraversal,     \* history: the last Scene.update / Scene.render call
    \* ---- SigmaEngine (src/engine.py 7-74)
    scenes,            \* SigmaEngine.scenes: name -> scene (or None)
    current_scene,     \* SigmaEngine.current_scene
    running,           \* SigmaEngine.running
    delta_time,        \* SigmaEngine.delta_time
    pc,                \* position of the control thread inside run()
    frame,             \* history: number of loop iterations started
    iterLog,           \* history: the phases performed in this iteration
    quitFrame,         \* history: the iteration in which QUIT was seen (0: none)
    lastSwitch,        \* history: the last set_current_scene call
    \* ---- InputManager (src/engine.py 97-135)
    input_manager,     \* the six key / button sets and mouse_position
    frameEvents,       \* history: the events folded in since InputManager.update
    lastKeyEvent,      \* history: per key, the type of its latest key event
    \* ---- AnimatedSprite / Animation (src/engine.py 243-305)
    animations,        \* AnimatedSprite.animations: clip name -> Animation
    current_animation, \* AnimatedSprite.current_animation
    src_rect,          \* Sprite.src_rect
    animHist,          \* history: updates of the active clip since it was played
    lastAnimOp,        \* history: the last AnimatedSprite call
    \* ---- PhysicsBody (src/engine.py 309-345)
    body,              \* velocity, acceleration, is_static
    entity,            \* the owning Entity's x and y
    physHist           \* history: calls made; the motion state when made static
                       \* and the apply_force / update calls since; the last
                       \* call and the acceleration the last update consumed
VARIABLES
    \* ---- CollisionShape, BoxCollider, CircleCollider (src/engine.py 347-397)
    colliders,         \* the collision shapes built so far, by slot
    lastCollide        \* history: the last collides_with call
VARIABLES
    \* ---- UIElement, Button (src/engine.py 401-462)
    elements,          \* the widgets: x, y, width, height, parent, children
    uiHist,            \* history: number of add_child calls made
    lastAbsolute,      \* history: the get_absolute_position call just made
    button,            \* Button: enabled, is_hovered, is_pressed, on_click
    lastButtonEvent    \* history: the last Button.handle_event call
VARIABLES
    \* ---- Panel, VerticalLayout, HorizontalLayout (src/engine.py 513-571)
    panel,             \* Panel.children (kind, x, y, width, height of each),
                       \* Panel.layout and the spacing of the Layout
    lastLayout         \* history: the Layout.update call just made, and the
                       \* children as it left them
VARIABLES
    \* ---- ResourceManager, Sprite.load_texture (src/engine.py 76-95, 196-212)
    resource_manager,  \* textures, sounds, fonts: name -> handle
    storeLog,          \* history: the backing-store reads, in call order
    sprite,            \* Sprite: scene, texture_name, texture, width, height
    scene_engine,      \* Scene.engine of the sprite's scene
    lastLookup         \* history: the last Sprite.load_texture call

sceneVars  == <<entities, lastTraversal>>
engineVars == <<scenes, current_scene, running, delta_time, pc, frame,
                iterLog, quitFrame, lastSwitch>>
inputVars  == <<input_manager, frameEvents, lastKeyEvent>>
animVars   == <<animations, current_animation, src_rect, animHist, lastAnimOp>>
physVars   == <<body, entity, physHist>>
\* the collision shapes, the UI widgets and the resource tables
colliderVars == <<colliders, lastCollide>>
uiVars     == <<elements, uiHist, lastAbsolute>>
buttonVars == <<button, lastButtonEvent>>
layoutVars == <<panel, lastLayout>>
resourceVars == <<resource_manager, storeLog, sprite, scene_engine, lastLookup>>
extVars    == <<colliderVars, uiVars, buttonVars, layoutVars, resourceVars>>
vars == <<sceneVars, engineVars, inputVars, animVars, physVars, extVars>>

\* Python's None
None == "None"

(***************************************************************************)
(* Scene: add_entity, remove_entity, update, render                         *)
(***************************************************************************)

\* bound on the entity list built by direct add_entity calls
MaxEntities == 3
EntityIds == {"e1", "e2"}

\* list.remove(x): drop the first occurrence of x
RECURSIVE ListRemove(_, _)
ListRemove(s, x) ==
    IF s = <<>> THEN <<>>
    ELSE IF Head(s) = x THEN Tail(s)
    ELSE <<Head(s)>> \o ListRemove(Tail(s), x)

InList(s, x) == \E i \in 1..Len(s) : s[i] = x

\* Scene.add_entity: append, no duplicate check
add_entity(ents, e) == Append(ents, e)

\* Scene.remove_entity: remove the first occurrence when present
remove_entity(ents, e) == IF InList(ents, e) THEN ListRemove(ents, e) ELSE ents

\* What an entity's update/render callback does to its own scene the first
\* time the traversal invokes it: nothing, one add_entity or one remove_entity.
CallbackOps ==
    {[op |-> "pass", arg |-> None]}
    \cup {[op |-> "add_entity", arg |-> e] : e \in EntityIds}
    \cup {[op |-> "remove_entity", arg |-> e] : e \in EntityIds}

RunCallback(ents, c) ==
    CASE c.op = "add_entity" -> add_entity(ents, c.arg)
      [] c.op = "remove_entity" -> remove_entity(ents, c.arg)
      [] OTHER -> ents

\* `for entity in self.entities: entity.update(dt)`: Python's list iterator
\* keeps an index into the live list and stops when the index reaches the
\* list's current length. i is that index, vis the entities whose callback
\* has been invoked so far, fired the entities whose callback already mutated.
RECURSIVE IterateEntities(_, _, _, _, _)
IterateEntities(ents, i, vis, fired, cb) ==
    IF i >= Len(ents) THEN [entities |-> ents, visited |-> vis]
    ELSE LET e == ents[i + 1]
             after == IF e \in fired THEN ents ELSE RunCallback(ents, cb[e])
         IN  IterateEntities(after, i + 1, Append(vis, e), fired \cup {e}, cb)

Scene_update(ents, cb) == IterateEntities(ents, 0, <<>>, {}, cb)

Scene_render(ents, cb) == IterateEntities(ents, 0, <<>>, {}, cb)

NoTraversal == [kind |-> None, snapshot |-> <<>>, visited |-> <<>>]

InitScene ==
    /\ entities = <<>>
    /\ lastTraversal = NoTraversal

AddEntity ==
    \E e \in EntityIds :
        /\ Len(entities) < MaxEntities
        /\ entities' = add_entity(entities, e)
        /\ UNCHANGED <<lastTraversal, engineVars, inputVars, animVars, physVars, extVars>>

RemoveEntity ==
    \E e \in EntityIds :
        /\ entities' = remove_entity(entities, e)
        /\ UNCHANGED <<lastTraversal, engineVars, inputVars, animVars, physVars, extVars>>

SceneUpdate ==
    \E cb \in [EntityIds -> CallbackOps] :
        /\ Len(entities) <= MaxEntities
        /\ LET r == Scene_update(entities, cb)
           IN  /\ entities' = r.entities
               /\ lastTraversal' = [kind |-> "update", snapshot |-> entities,
                                    visited |-> r.visited]
        /\ UNCHANGED <<engineVars, inputVars, animVars, physVars, extVars>>

SceneRender ==
    \E cb \in [EntityIds -> CallbackOps] :
        /\ Len(entities) <= MaxEntities
        /\ LET r == Scene_render(entities, cb)
           IN  /\ entities' = r.entities
               /\ lastTraversal' = [kind |-> "render", snapshot |-> entities,
                                    visited |-> r.visited]
        /\ UNCHANGED <<engineVars, inputVars, animVars, physVars, extVars>>

(***************************************************************************)
(* InputManager: update, handle_event, is_key_pressed / down / up           *)
(***************************************************************************)

\* pygame key codes (K_a, K_b) and mouse buttons (1 is the left button)
Keys == {97, 98}
Buttons == {1}
\* what pygame.mouse.get_pos() may return
MousePositions == {<<0, 0>>, <<5, 5>>}
\* bound on the events folded into one frame of the InputManager
MaxEvents == 2

\* pygame events; code is event.key or event.button (0 when the type has none)
Events ==
    {[type |-> "QUIT", code |-> 0], [type |-> "MOUSEMOTION", code |-> 0]}
    \cup {[type |-> t, code |-> k] : t \in {"KEYDOWN", "KEYUP"}, k \in Keys}
    \cup {[type |-> t, code |-> b] :
              t \in {"MOUSEBUTTONDOWN", "MOUSEBUTTONUP"}, b \in Buttons}

\* the sequences of at most n events
RECURSIVE EventLists(_)
EventLists(n) ==
    IF n = 0 THEN {<<>>}
    ELSE EventLists(n - 1)
         \cup {Append(s, e) : s \in {t \in EventLists(n - 1) : Len(t) = n - 1},
                              e \in Events}

\* InputManager.__init__
InputManager_init ==
    [keys_pressed |-> {}, keys_down |-> {}, keys_up |-> {},
     mouse_position |-> <<0, 0>>,
     mouse_buttons_pressed |-> {}, mouse_buttons_down |-> {},
     mouse_buttons_up |-> {}]

\* the mutant of InputManager.update that forgets to clear keys_down
InputManager_update_KeepDown(im, pos) ==
    [im EXCEPT !.keys_up = {}, !.mouse_buttons_down = {},
               !.mouse_buttons_up = {}, !.mouse_position = pos]

\* InputManager.update: clear the four this-frame sets, read the mouse
InputManager_update(im, pos) ==
    [im EXCEPT !.keys_down = {}, !.keys_up = {},
               !.mouse_buttons_down = {}, !.mouse_buttons_up = {},
               !.mouse_position = pos]

\* InputManager.handle_event
InputManager_handle_event(im, e) ==
    CASE e.type = "KEYDOWN" ->
            [im EXCEPT !.keys_pressed = @ \cup {e.code},
                       !.keys_down = @ \cup {e.code}]
      [] e.type = "KEYUP" ->
            [im EXCEPT !.keys_pressed = @ \ {e.code},
                       !.keys_up = @ \cup {e.code}]
      [] e.type = "MOUSEBUTTONDOWN" ->
            [im EXCEPT !.mouse_buttons_pressed = @ \cup {e.code},
                       !.mouse_buttons_down = @ \cup {e.code}]
      [] e.type = "MOUSEBUTTONUP" ->
            [im EXCEPT !.mouse_buttons_pressed = @ \ {e.code},
                       !.mouse_buttons_up = @ \cup {e.code}]
      [] OTHER -> im

is_key_pressed(im, key) == key \in im.keys_pressed

is_key_down(im, key) == key \in im.keys_down

is_key_up(im, key) == key \in im.keys_up

InitInput ==
    /\ input_manager = InputManager_init
    /\ frameEvents = <<>>
    /\ lastKeyEvent = [k \in Keys |-> None]

\* the start of a frame: InputManager.update()
InputUpdate ==
    \E pos \in MousePositions :
        /\ input_manager' = InputManager_update(input_manager, pos)
        /\ frameEvents' = <<>>
        /\ UNCHANGED <<lastKeyEvent, sceneVars, engineVars, animVars, physVars, extVars>>

\* one event of the frame folded in: InputManager.handle_event(e)
InputHandleEvent ==
    \E e \in Events :
        /\ Len(frameEvents) < MaxEvents
        /\ input_manager' = InputManager_handle_event(input_manager, e)
        /\ frameEvents' = Append(frameEvents, e)
        /\ lastKeyEvent' =
               IF e.type \in {"KEYDOWN", "KEYUP"}
               THEN [lastKeyEvent EXCEPT ![e.code] = e.type]
               ELSE lastKeyEvent
        /\ UNCHANGED <<sceneVars, engineVars, animVars, physVars, extVars>>

(***************************************************************************)
(* SigmaEngine: add_scene, set_current_scene                                *)
(***************************************************************************)

SceneNames == {"menu", "game"}
SceneIds == {"s1", "s2"}

\* SigmaEngine.add_scene: self.scenes[name] = scene
add_scene(table, name, scene) ==
    [n \in DOMAIN table \cup {name} |-> IF n = name THEN scene ELSE table[n]]

\* One call a scene receives: fn on the receiving scene, with current the
\* value of engine.current_scene at the moment of the call.
SceneCall(fn, scene, cur) == [fn |-> fn, scene |-> scene, current |-> cur]

\* mutants of set_current_scene: on_enter before on_exit; on_enter before the
\* pointer is swapped; an unknown name clears the current scene
set_current_scene_EnterFirst(table, cur, name) ==
    IF name \in DOMAIN table
    THEN [current_scene |-> table[name],
          calls |-> <<SceneCall("on_enter", table[name], table[name])>>
                    \o (IF cur # None
                        THEN <<SceneCall("on_exit", cur, table[name])>>
                        ELSE <<>>)]
    ELSE [current_scene |-> cur, calls |-> <<>>]

set_current_scene_EnterBeforeSwap(table, cur, name) ==
    IF name \in DOMAIN table
    THEN [current_scene |-> table[name],
          calls |-> (IF cur # None
                     THEN <<SceneCall("on_exit", cur, cur)>> ELSE <<>>)
                    \o <<SceneCall("on_enter", table[name], cur)>>]
    ELSE [current_scene |-> cur, calls |-> <<>>]

set_current_scene_UnknownClears(table, cur, name) ==
    IF name \in DOMAIN table
    THEN [current_scene |-> table[name],
          calls |-> (IF cur # None
                     THEN <<SceneCall("on_exit", cur, cur)>> ELSE <<>>)
                    \o <<SceneCall("on_enter", table[name], table[name])>>]
    ELSE [current_scene |-> None,
          calls |-> IF cur # None
                    THEN <<SceneCall("on_exit", cur, cur)>> ELSE <<>>]

\* SigmaEngine.set_current_scene: the new current_scene and the calls made,
\* in order. on_exit goes to self.current_scene before the assignment,
\* on_enter to self.current_scene after it.
set_current_scene(table, cur, name) ==
    IF name \in DOMAIN table
    THEN LET exits == IF cur # None
                      THEN <<SceneCall("on_exit", cur, cur)>> ELSE <<>>
             swapped == table[name]
         IN  [current_scene |-> swapped,
              calls |-> exits \o <<SceneCall("on_enter", swapped, swapped)>>]
    ELSE [current_scene |-> cur, calls |-> <<>>]

NoSwitch ==
    [name |-> None, registered |-> FALSE, outgoing |-> None,
     incoming |-> None, calls |-> <<>>]

\* SigmaEngine.__init__
InitEngine ==
    /\ scenes = <<>>
    /\ current_scene = None
    /\ running = FALSE
    /\ delta_time = 0
    /\ pc = "idle"
    /\ frame = 0
    /\ iterLog = <<>>
    /\ quitFrame = 0
    /\ lastSwitch = NoSwitch

loopVars == <<running, delta_time, pc, frame, iterLog, quitFrame>>
notEngine == <<sceneVars, inputVars, animVars, physVars, extVars>>
notLoop == <<sceneVars, frameEvents, lastKeyEvent, animVars, physVars, extVars>>

AddScene ==
    \E name \in SceneNames, s \in SceneIds :
        /\ scenes' = add_scene(scenes, name, s)
        /\ UNCHANGED <<current_scene, lastSwitch, loopVars, notEngine>>

SetCurrentScene ==
    \E name \in SceneNames :
        LET r == set_current_scene(scenes, current_scene, name)
        IN  /\ current_scene' = r.current_scene
            /\ lastSwitch' =
                   [name |-> name,
                    registered |-> name \in DOMAIN scenes,
                    outgoing |-> current_scene,
                    incoming |-> IF name \in DOMAIN scenes
                                 THEN scenes[name] ELSE None,
                    calls |-> r.calls]
            /\ UNCHANGED <<scenes, loopVars, notEngine>>

(***************************************************************************)
(* SigmaEngine.run: the main loop                                          *)
(*   pc: "idle" -> "while" -> "_handle_events" -> "_update" -> "_render"    *)
(*       -> "tick" -> "while" ... -> "done"                                 *)
(***************************************************************************)

\* bound on the loop iterations of one run
MaxFrames == 2
\* bound on the events one pygame.event.get() poll of the loop returns
MaxPoll == 1
\* elapsed wall-clock time of an iteration, in clock units
DeltaTimes == {0, 1}

Phases == <<"_handle_events", "_update", "_render">>

HasQuit(evs) == \E i \in 1..Len(evs) : evs[i].type = "QUIT"

\* the mutant of _handle_events that ignores pygame.QUIT
handle_events_running_IgnoreQuit(run, evs) == run

\* _handle_events, lines 49-50: a QUIT event clears self.running
handle_events_running(run, evs) == IF HasQuit(evs) THEN FALSE ELSE run

\* _handle_events, lines 47 and 51: input_manager.update(), then every polled
\* event is handed to input_manager.handle_event in order
RECURSIVE handle_events_input(_, _)
handle_events_input(im, evs) ==
    IF evs = <<>> THEN im
    ELSE handle_events_input(InputManager_handle_event(im, Head(evs)), Tail(evs))

\* run(), line 32: self.running = True
Run ==
    /\ pc = "idle"
    /\ running' = TRUE
    /\ pc' = "while"
    /\ UNCHANGED <<scenes, current_scene, lastSwitch, delta_time, frame,
                   iterLog, quitFrame, input_manager, notLoop>>

\* `while self.running:` taken; lines 36-38 compute delta_time
LoopEnter ==
    \E dt \in DeltaTimes :
        /\ pc = "while"
        /\ running
        /\ frame < MaxFrames
        /\ frame' = frame + 1
        /\ delta_time' = dt
        /\ iterLog' = <<>>
        /\ pc' = "_handle_events"
        /\ UNCHANGED <<scenes, current_scene, lastSwitch, running, quitFrame,
                       input_manager, notLoop>>

\* `while self.running:` not taken: run() returns
LoopExit ==
    /\ pc = "while"
    /\ ~running
    /\ pc' = "done"
    /\ UNCHANGED <<scenes, current_scene, lastSwitch, running, delta_time,
                   frame, iterLog, quitFrame, input_manager, notLoop>>

\* self._handle_events()
HandleEvents ==
    \E pos \in MousePositions, evs \in EventLists(MaxPoll) :
        /\ pc = "_handle_events"
        /\ input_manager' =
               handle_events_input(InputManager_update(input_manager, pos), evs)
        /\ running' = handle_events_running(running, evs)
        /\ quitFrame' = IF HasQuit(evs) THEN frame ELSE quitFrame
        /\ iterLog' = Append(iterLog, "_handle_events")
        /\ pc' = "_update"
        /\ UNCHANGED <<scenes, current_scene, lastSwitch, delta_time, frame,
                       notLoop>>

\* self._update(): current_scene.update(delta_time) when a scene is current
Update ==
    /\ pc = "_update"
    /\ iterLog' = Append(iterLog, "_update")
    /\ pc' = "_render"
    /\ UNCHANGED <<scenes, current_scene, lastSwitch, running, delta_time,
                   frame, quitFrame, input_manager, notLoop>>

\* self._render(): fill, current_scene.render(screen), flip
Render ==
    /\ pc = "_render"
    /\ iterLog' = Append(iterLog, "_render")
    /\ pc' = "tick"
    /\ UNCHANGED <<scenes, current_scene, lastSwitch, running, delta_time,
                   frame, quitFrame, input_manager, notLoop>>

\* self.clock.tick(self.target_fps), then back to the loop test
Tick ==
    /\ pc = "tick"
    /\ pc' = "while"
    /\ UNCHANGED <<scenes, current_scene, lastSwitch, running, delta_time,
                   frame, iterLog, quitFrame, input_manager, notLoop>>

(***************************************************************************)
(* Animation and AnimatedSprite: add_animation, play_animation, update      *)
(* Times (frame_duration, the delta time, time_accumulated) are whole clock     *)
(* units.                                                                   *)
(***************************************************************************)

\* clip names handed to add_animation and play_animation; the empty string
\* is a name like any other for the mapping, and falsy for the tests of
\* add_animation and update
ClipNames == {"", "idle"}
FrameCounts == {1, 4}
FrameDurations == {2}
\* delta times: zero, half a frame, one frame, more than two frames
AnimDeltaTimes == {0, 1, 2, 5}
\* width of the sprite sheet image, and the frame size cut from it
SheetWidths == {4}
FrameSizes == {<<2, 2>>}
\* bound on the updates of the active clip between two (re)plays
MaxTicks == 5

\* pygame.Rect(x, y, w, h)
Rect(x, y, w, h) == <<x, y, w, h>>

\* Animation.__init__: the frame rectangles, row-major across the sheet,
\* and the initial playback state
Animation_init(sheet_width, frame_width, frame_height, frame_count, frame_duration) ==
    LET frames_per_row == sheet_width \div frame_width
    IN  [frame_count |-> frame_count,
         frame_duration |-> frame_duration,
         frames |-> [i \in 1..frame_count |->
                        Rect(((i - 1) % frames_per_row) * frame_width,
                             ((i - 1) \div frames_per_row) * frame_height,
                             frame_width, frame_height)],
         current_frame |-> 0,
         time_accumulated |-> 0,
         is_playing |-> FALSE,
         is_looping |-> TRUE]

\* the sprite's clip state as one value: [animations, current_animation, src_rect]
Sprite(anims, cur, rect) ==
    [animations |-> anims, current_animation |-> cur, src_rect |-> rect]

\* not self.current_animation: None and the empty string are falsy
Falsy(name) == name = None \/ name = ""

\* the mutant of play_animation that starts a clip at its second frame
play_animation_FromSecondFrame(sp, name, loop) ==
    IF name \in DOMAIN sp.animations
    THEN [sp EXCEPT !.current_animation = name,
                    !.animations[name].is_playing = TRUE,
                    !.animations[name].is_looping = loop,
                    !.animations[name].current_frame = 1,
                    !.animations[name].time_accumulated = 0]
    ELSE sp

\* AnimatedSprite.play_animation
play_animation(sp, name, loop) ==
    IF name \in DOMAIN sp.animations
    THEN [sp EXCEPT !.current_animation = name,
                    !.animations[name].is_playing = TRUE,
                    !.animations[name].is_looping = loop,
                    !.animations[name].current_frame = 0,
                    !.animations[name].time_accumulated = 0]
    ELSE sp

\* AnimatedSprite.add_animation: store the clip; play it when
\* current_animation is falsy
add_animation(sp, name, animation) ==
    LET stored == [sp EXCEPT !.animations =
                       [n \in DOMAIN sp.animations \cup {name} |->
                           IF n = name THEN animation ELSE sp.animations[n]]]
    IN  IF Falsy(sp.current_animation)
        THEN play_animation(stored, name, TRUE)
        ELSE stored

\* mutants of Animation_advance: the overshoot is carried over and the clip
\* advances one frame per elapsed frame_duration; a looping clip is clamped
\* like a non-looping one; a stopped clip wraps to frame 0
RECURSIVE Animation_advance_CarryOver(_, _)
Animation_advance_CarryOver(anim, dt) ==
    LET t == anim.time_accumulated + dt
    IN  IF t >= anim.frame_duration /\ anim.frame_duration > 0
        THEN LET nxt == anim.current_frame + 1
                 stepped ==
                     IF nxt >= anim.frame_count
                     THEN IF anim.is_looping
                          THEN [anim EXCEPT !.current_frame = 0,
                                            !.time_accumulated = 0]
                          ELSE [anim EXCEPT !.current_frame = anim.frame_count - 1,
                                            !.time_accumulated = 0,
                                            !.is_playing = FALSE]
                     ELSE [anim EXCEPT !.current_frame = nxt,
                                       !.time_accumulated = 0]
             IN  IF stepped.is_playing
                 THEN Animation_advance_CarryOver(stepped,
                                                  t - anim.frame_duration)
                 ELSE stepped
        ELSE [anim EXCEPT !.time_accumulated = t]

Animation_advance_NoWrap(anim, dt) ==
    LET t == anim.time_accumulated + dt
    IN  IF t >= anim.frame_duration
        THEN LET nxt == anim.current_frame + 1
             IN  IF nxt >= anim.frame_count
                 THEN [anim EXCEPT !.time_accumulated = 0,
                                   !.is_playing = FALSE,
                                   !.current_frame = anim.frame_count - 1]
                 ELSE [anim EXCEPT !.time_accumulated = 0,
                                   !.current_frame = nxt]
        ELSE [anim EXCEPT !.time_accumulated = t]

Animation_advance_StopAtZero(anim, dt) ==
    LET t == anim.time_accumulated + dt
    IN  IF t >= anim.frame_duration
        THEN LET nxt == anim.current_frame + 1
             IN  IF nxt >= anim.frame_count
                 THEN IF anim.is_looping
                      THEN [anim EXCEPT !.time_accumulated = 0,
                                        !.current_frame = 0]
                      ELSE [anim EXCEPT !.time_accumulated = 0,
                                        !.is_playing = FALSE,
                                        !.current_frame = 0]
                 ELSE [anim EXCEPT !.time_accumulated = 0,
                                   !.current_frame = nxt]
        ELSE [anim EXCEPT !.time_accumulated = t]

\* AnimatedSprite.update, lines 293-303: the playing clip's time and frame
Animation_advance(anim, dt) ==
    LET t == anim.time_accumulated + dt
    IN  IF t >= anim.frame_duration
        THEN LET nxt == anim.current_frame + 1
             IN  IF nxt >= anim.frame_count
                 THEN IF anim.is_looping
                      THEN [anim EXCEPT !.time_accumulated = 0,
                                        !.current_frame = 0]
                      ELSE [anim EXCEPT !.time_accumulated = 0,
                                        !.is_playing = FALSE,
                                        !.current_frame = anim.frame_count - 1]
                 ELSE [anim EXCEPT !.time_accumulated = 0,
                                   !.current_frame = nxt]
        ELSE [anim EXCEPT !.time_accumulated = t]

\* AnimatedSprite.update: nothing when current_animation is falsy or the
\* clip is not playing; otherwise advance it and write its frame rectangle
\* to src_rect
AnimatedSprite_update(sp, dt) ==
    IF Falsy(sp.current_animation) THEN sp
    ELSE LET anim == sp.animations[sp.current_animation]
         IN  IF ~anim.is_playing THEN sp
             ELSE LET adv == Animation_advance(anim, dt)
                  IN  [sp EXCEPT !.animations[sp.current_animation] = adv,
                                 !.src_rect = adv.frames[adv.current_frame + 1]]

\* the sprite has an active clip by the test of update (line 286): a
\* current_animation that is not falsy
HasActiveClip == ~Falsy(current_animation)

\* the active clip (only used where the sprite has one)
ActiveClip == animations[current_animation]

NoAnimOp == [op |-> None, name |-> None, dt |-> 0]

\* history of the active clip: played tells whether play_animation started it
\* (a clip stored over the active name has not been played), ticks counts the
\* update calls since then, full those whose delta time equals frame_duration
NoHist == [played |-> FALSE, ticks |-> 0, full |-> 0]

\* Sprite.src_rect = None: no rectangle (the empty tuple, which compares with
\* rectangles)
NoRect == <<>>

\* AnimatedSprite.__init__
InitAnim ==
    /\ animations = <<>>
    /\ current_animation = None
    /\ src_rect = NoRect
    /\ animHist = NoHist
    /\ lastAnimOp = NoAnimOp

notAnim == <<sceneVars, engineVars, inputVars, physVars, extVars>>

AddAnimation ==
    \E name \in ClipNames, sw \in SheetWidths, fs \in FrameSizes,
       fc \in FrameCounts, fd \in FrameDurations :
        LET r == add_animation(Sprite(animations, current_animation, src_rect),
                               name, Animation_init(sw, fs[1], fs[2], fc, fd))
        IN  /\ animations' = r.animations
            /\ current_animation' = r.current_animation
            /\ src_rect' = r.src_rect
            \* the history restarts when the active clip is played or replaced
            /\ animHist' = IF Falsy(current_animation)
                           THEN [NoHist EXCEPT !.played = TRUE]
                           ELSE IF current_animation = name THEN NoHist
                           ELSE animHist
            /\ lastAnimOp' = [op |-> "add_animation", name |-> name, dt |-> 0]
            /\ UNCHANGED notAnim

PlayAnimation ==
    \E name \in ClipNames, loop \in BOOLEAN :
        LET r == play_animation(Sprite(animations, current_animation, src_rect),
                                name, loop)
        IN  /\ animations' = r.animations
            /\ current_animation' = r.current_animation
            /\ src_rect' = r.src_rect
            /\ animHist' = IF name \in DOMAIN animations
                           THEN [NoHist EXCEPT !.played = TRUE] ELSE animHist
            /\ lastAnimOp' = [op |-> "play_animation", name |-> name, dt |-> 0]
            /\ UNCHANGED notAnim

AnimUpdate ==
    \E dt \in AnimDeltaTimes :
        LET r == AnimatedSprite_update(
                     Sprite(animations, current_animation, src_rect), dt)
        IN  /\ animHist.ticks < MaxTicks
            /\ animations' = r.animations
            /\ current_animation' = r.current_animation
            /\ src_rect' = r.src_rect
            /\ animHist' =
                   IF Falsy(current_animation) THEN animHist
                   ELSE [animHist EXCEPT
                            !.ticks = @ + 1,
                            !.full = @ + (IF dt = ActiveClip.frame_duration
                                          THEN 1 ELSE 0)]
            /\ lastAnimOp' = [op |-> "update", name |-> None, dt |-> dt]
            /\ UNCHANGED notAnim

(***************************************************************************)
(* PhysicsBody: apply_force, update                                         *)
(* Numbers are exact rationals <<numerator, denominator>> in lowest terms.  *)
(***************************************************************************)

Abs(n) == IF n < 0 THEN -n ELSE n

RECURSIVE GCD(_, _)
GCD(a, b) == IF b = 0 THEN a ELSE GCD(b, a % b)

QNorm(n, d) == LET g == GCD(Abs(n), d) IN <<n \div g, d \div g>>

QInt(n) == <<n, 1>>

QAdd(a, b) ==
    LET l == (a[2] \div GCD(a[2], b[2])) * b[2]
    IN  QNorm(a[1] * (l \div a[2]) + b[1] * (l \div b[2]), l)

QMul(a, b) ==
    LET g1 == GCD(Abs(a[1]), b[2])
        g2 == GCD(Abs(b[1]), a[2])
    IN  QNorm((a[1] \div g1) * (b[1] \div g2), (a[2] \div g2) * (b[2] \div g1))

\* a / b for b > 0
QDiv(a, b) == QMul(a, <<b[2], b[1]>>)

QZero == QInt(0)

\* PhysicsBody.__init__ defaults: mass 1.0, gravity_scale 1.0, friction 0.1,
\* and the gravity constant 9.81 of update
Mass == QInt(1)
GravityScale == QInt(1)
Friction == <<1, 10>>
Gravity == <<981, 100>>

\* forces handed to apply_force and delta times handed to update
Forces == {<<QInt(0), QInt(0)>>, <<QInt(3), QInt(0)>>, <<QInt(-2), <<-1, 2>>>>}
PhysDeltaTimes == {QInt(1), QInt(2)}
\* values assigned to Entity.position
EntityPositions == {<<QInt(3), QInt(4)>>}
\* bound on the apply_force and update calls of a run
MaxPhysOps == 3

\* PhysicsBody.__init__
PhysicsBody_init ==
    [velocity |-> <<QZero, QZero>>, acceleration |-> <<QZero, QZero>>,
     is_static |-> FALSE]

\* the mutant of apply_force without the is_static test
apply_force_NoStaticTest(b, force_x, force_y) ==
    [b EXCEPT !.acceleration = <<QAdd(@[1], QDiv(force_x, Mass)),
                                 QAdd(@[2], QDiv(force_y, Mass))>>]

\* PhysicsBody.apply_force
apply_force(b, force_x, force_y) ==
    IF ~b.is_static
    THEN [b EXCEPT !.acceleration = <<QAdd(@[1], QDiv(force_x, Mass)),
                                      QAdd(@[2], QDiv(force_y, Mass))>>]
    ELSE b

\* the mutant of update that leaves the accumulated acceleration in place
PhysicsBody_update_NoReset(b, ent, dt) ==
    IF b.is_static THEN [body |-> b, entity |-> ent]
    ELSE LET ax == b.acceleration[1]
             ay == QAdd(b.acceleration[2], QMul(Gravity, GravityScale))
             damp == QAdd(QInt(1), QMul(QInt(-1), Friction))
             vx == QMul(QAdd(b.velocity[1], QMul(ax, dt)), damp)
             vy == QMul(QAdd(b.velocity[2], QMul(ay, dt)), damp)
         IN  [body |-> [b EXCEPT !.velocity = <<vx, vy>>],
              entity |-> [ent EXCEPT !.x = QAdd(@, QMul(vx, dt)),
                                     !.y = QAdd(@, QMul(vy, dt))]]

\* PhysicsBody.update: gravity, velocity, friction, position, reset
PhysicsBody_update(b, ent, dt) ==
    IF b.is_static THEN [body |-> b, entity |-> ent]
    ELSE LET ax == b.acceleration[1]
             ay == QAdd(b.acceleration[2], QMul(Gravity, GravityScale))
             damp == QAdd(QInt(1), QMul(QInt(-1), Friction))
             vx == QMul(QAdd(b.velocity[1], QMul(ax, dt)), damp)
             vy == QMul(QAdd(b.velocity[2], QMul(ay, dt)), damp)
         IN  [body |-> [b EXCEPT !.velocity = <<vx, vy>>,
                                 !.acceleration = <<QZero, QZero>>],
              entity |-> [ent EXCEPT !.x = QAdd(@, QMul(vx, dt)),
                                     !.y = QAdd(@, QMul(vy, dt))]]

\* what the static-body claim compares: velocity, acceleration, x, y
Motion(b, ent) ==
    [velocity |-> b.velocity, acceleration |-> b.acceleration,
     x |-> ent.x, y |-> ent.y]

\* Entity.__init__ and PhysicsBody.__init__
InitPhysics ==
    /\ body = PhysicsBody_init
    /\ entity = [x |-> QZero, y |-> QZero]
    /\ physHist = [ops |-> 0, snapshot |-> None, forces |-> 0, updates |-> 0,
                   last |-> None, pending |-> <<QZero, QZero>>]

notPhys == <<sceneVars, engineVars, inputVars, animVars, extVars>>

\* body.is_static = flag (the attribute is assigned by the body's owner)
SetStatic ==
    \E flag \in BOOLEAN :
        /\ body' = [body EXCEPT !.is_static = flag]
        /\ physHist' =
               IF flag = body.is_static THEN [physHist EXCEPT !.last = "is_static"]
               ELSE [physHist EXCEPT
                        !.snapshot = IF flag THEN Motion(body, entity) ELSE None,
                        !.forces = 0, !.updates = 0, !.last = "is_static"]
        /\ UNCHANGED <<entity, notPhys>>

ApplyForce ==
    \E f \in Forces :
        /\ physHist.ops < MaxPhysOps
        /\ body' = apply_force(body, f[1], f[2])
        /\ physHist' = [physHist EXCEPT !.ops = @ + 1, !.forces = @ + 1,
                                        !.last = "apply_force"]
        /\ UNCHANGED <<entity, notPhys>>

\* entity.position = value (the setter): the owner of the entity places it,
\* whatever the body is; a sequence of physics calls on a static body starts
\* anew from the placed position
SetPosition ==
    \E value \in EntityPositions :
        /\ entity' = [entity EXCEPT !.x = value[1], !.y = value[2]]
        /\ physHist' =
               [physHist EXCEPT
                   !.snapshot = IF body.is_static THEN Motion(body, entity')
                                ELSE None,
                   !.forces = 0, !.updates = 0, !.last = "position"]
        /\ UNCHANGED <<body, notPhys>>

PhysicsUpdate ==
    \E dt \in PhysDeltaTimes :
        LET r == PhysicsBody_update(body, entity, dt)
        IN  /\ physHist.ops < MaxPhysOps
            /\ body' = r.body
            /\ entity' = r.entity
            /\ physHist' = [physHist EXCEPT !.ops = @ + 1, !.updates = @ + 1,
                                            !.last = "update",
                                            !.pending = body.acceleration]
            /\ UNCHANGED notPhys

(***************************************************************************)
(* CollisionShape: BoxCollider and CircleCollider                          *)
(***************************************************************************)

\* the two shapes of a collision test
Slots == {"a", "b"}
\* positions of the entities the shapes are bound to, offsets assigned to a
\* shape, box sizes and circle radii
ShapePositions == {<<0, 0>>, <<6, 8>>, <<9, 0>>}
ShapeOffsets == {<<0, 0>>, <<4, 0>>}
BoxSizes == {<<10, 10>>}
Radii == {5, 4}

\* CollisionShape.__init__ and BoxCollider.__init__ (x, y: the entity's)
BoxCollider_init(pos, width, height) ==
    [kind |-> "BoxCollider", x |-> pos[1], y |-> pos[2],
     offset_x |-> 0, offset_y |-> 0, width |-> width, height |-> height]

\* CollisionShape.__init__ and CircleCollider.__init__
CircleCollider_init(pos, radius) ==
    [kind |-> "CircleCollider", x |-> pos[1], y |-> pos[2],
     offset_x |-> 0, offset_y |-> 0, radius |-> radius]

\* BoxCollider.get_bounds and CircleCollider.get_bounds (even sizes: the
\* halves are whole numbers)
get_bounds(self) ==
    IF self.kind = "BoxCollider"
    THEN Rect(self.x + self.offset_x - self.width \div 2,
              self.y + self.offset_y - self.height \div 2,
              self.width, self.height)
    ELSE Rect(self.x + self.offset_x - self.radius,
              self.y + self.offset_y - self.radius,
              self.radius * 2, self.radius * 2)

\* pygame.Rect.colliderect for rectangles of non-negative size: the
\* interiors overlap, and an empty rectangle collides with nothing
colliderect(r1, r2) ==
    /\ r1[3] # 0 /\ r1[4] # 0 /\ r2[3] # 0 /\ r2[4] # 0
    /\ r1[1] < r2[1] + r2[3]
    /\ r1[2] < r2[2] + r2[4]
    /\ r1[1] + r1[3] > r2[1]
    /\ r1[2] + r1[4] > r2[2]

\* the mutant of BoxCollider.collides_with that tests the bounds of any shape
BoxCollider_collides_with_AnyShape(self, other) ==
    colliderect(get_bounds(self), get_bounds(other))

\* BoxCollider.collides_with
BoxCollider_collides_with(self, other) ==
    IF other.kind = "BoxCollider"
    THEN colliderect(get_bounds(self), get_bounds(other))
    ELSE FALSE

\* CircleCollider.collides_with: sqrt(dx*dx + dy*dy) < radius + radius,
\* decided on the squares (the square root is not negative)
CircleCollider_collides_with(self, other) ==
    IF other.kind = "CircleCollider"
    THEN LET dx == self.x - other.x
             dy == self.y - other.y
             sum == self.radius + other.radius
         IN  sum > 0 /\ dx * dx + dy * dy < sum * sum
    ELSE FALSE

\* shape.collides_with(other), dispatched on the class of shape
collides_with(self, other) ==
    IF self.kind = "BoxCollider"
    THEN BoxCollider_collides_with(self, other)
    ELSE CircleCollider_collides_with(self, other)

NoCollide == [called |-> FALSE, self |-> None, other |-> None, result |-> FALSE]

\* no shape has been built
InitCollide ==
    /\ colliders = <<>>
    /\ lastCollide = NoCollide

notCollide == <<sceneVars, engineVars, inputVars, animVars, physVars,
               uiVars, buttonVars, layoutVars, resourceVars>>

\* colliders[slot] = shape, as a function over the slots filled so far
PutShape(slot, shape) ==
    [s \in DOMAIN colliders \cup {slot} |->
        IF s = slot THEN shape ELSE colliders[s]]

\* BoxCollider(entity, width, height)
NewBoxCollider ==
    \E slot \in Slots, pos \in ShapePositions, size \in BoxSizes :
        /\ colliders' = PutShape(slot, BoxCollider_init(pos, size[1], size[2]))
        /\ UNCHANGED <<lastCollide, notCollide>>

\* CircleCollider(entity, radius)
NewCircleCollider ==
    \E slot \in Slots, pos \in ShapePositions, radius \in Radii :
        /\ colliders' = PutShape(slot, CircleCollider_init(pos, radius))
        /\ UNCHANGED <<lastCollide, notCollide>>

\* shape.offset_x, shape.offset_y = off (assigned by the shape's owner)
SetOffset ==
    \E slot \in DOMAIN colliders, off \in ShapeOffsets :
        /\ colliders' = [colliders EXCEPT ![slot].offset_x = off[1],
                                          ![slot].offset_y = off[2]]
        /\ UNCHANGED <<lastCollide, notCollide>>

\* colliders[s1].collides_with(colliders[s2])
CollidesWith ==
    \E s1 \in DOMAIN colliders, s2 \in DOMAIN colliders :
        /\ lastCollide' = [called |-> TRUE,
                           self |-> colliders[s1], other |-> colliders[s2],
                           result |-> collides_with(colliders[s1], colliders[s2])]
        /\ UNCHANGED <<colliders, notCollide>>

(***************************************************************************)
(* UIElement: the widget tree and absolute positions                       *)
(***************************************************************************)

\* three widgets; "button" is a Button
ElemIds == {"root", "panel", "button"}
\* bound on the add_child calls of a run
MaxAdds == 3

\* UIElement.__init__ (parent None, no children)
UIElement_init(x, y, width, height) ==
    [x |-> x, y |-> y, width |-> width, height |-> height,
     parent |-> None, children |-> <<>>]

\* parent.add_child(child): append and set the back-reference
add_child(els, parent, child) ==
    LET appended == [els EXCEPT ![parent].children = Append(@, child)]
    IN  [appended EXCEPT ![child].parent = parent]

\* parent.remove_child(child): first occurrence, when present
remove_child(els, parent, child) ==
    IF InList(els[parent].children, child)
    THEN LET removed == [els EXCEPT ![parent].children = ListRemove(@, child)]
         IN  [removed EXCEPT ![child].parent = None]
    ELSE els

\* the while loop of get_absolute_position; steps bounds the iterations, and
\* a walk that has not reached None by then is on a cycle and never returns
RECURSIVE AbsoluteWalk(_, _, _, _, _)
AbsoluteWalk(els, current, x, y, steps) ==
    IF current = None THEN [returned |-> TRUE, pos |-> <<x, y>>]
    ELSE IF steps = 0 THEN [returned |-> FALSE, pos |-> <<0, 0>>]
    ELSE AbsoluteWalk(els, els[current].parent,
                      x + els[current].x, y + els[current].y, steps - 1)

\* the mutant of get_absolute_position that adds the direct parent only
get_absolute_position_ParentOnly(els, e) ==
    IF els[e].parent = None
    THEN [returned |-> TRUE, pos |-> <<els[e].x, els[e].y>>]
    ELSE [returned |-> TRUE,
          pos |-> <<els[e].x + els[els[e].parent].x,
                    els[e].y + els[els[e].parent].y>>]

\* UIElement.get_absolute_position
get_absolute_position(els, e) ==
    AbsoluteWalk(els, els[e].parent, els[e].x, els[e].y, Cardinality(ElemIds))

\* UIElement.contains_point: inclusive edges (even sizes: whole halves)
contains_point(els, e, point) ==
    LET abs == get_absolute_position(els, e).pos
    IN  /\ abs[1] - els[e].width \div 2 <= point[1]
        /\ point[1] <= abs[1] + els[e].width \div 2
        /\ abs[2] - els[e].height \div 2 <= point[2]
        /\ point[2] <= abs[2] + els[e].height \div 2

NoAbsolute == [elem |-> None, returned |-> FALSE, pos |-> <<0, 0>>]

\* UIElement(10, 10), UIElement(5, 5) of the default size, Button(2, 2, 4, 2)
InitUI ==
    /\ elements = [e \in ElemIds |->
                      CASE e = "root" -> UIElement_init(10, 10, 100, 50)
                        [] e = "panel" -> UIElement_init(5, 5, 100, 50)
                        [] e = "button" -> UIElement_init(2, 2, 4, 2)]
    /\ uiHist = [adds |-> 0]
    /\ lastAbsolute = NoAbsolute

notUI == <<sceneVars, engineVars, inputVars, animVars, physVars, colliderVars,
          layoutVars, resourceVars>>

\* parent.add_child(child)
AddChildOf(parent, child) ==
    /\ uiHist.adds < MaxAdds
    /\ elements' = add_child(elements, parent, child)
    /\ uiHist' = [uiHist EXCEPT !.adds = @ + 1]
    /\ lastAbsolute' = NoAbsolute
    /\ UNCHANGED <<buttonVars, notUI>>

AddChild == \E parent \in ElemIds, child \in ElemIds : AddChildOf(parent, child)

\* parent.remove_child(child)
RemoveChild ==
    \E parent \in ElemIds, child \in ElemIds :
        /\ elements' = remove_child(elements, parent, child)
        /\ lastAbsolute' = NoAbsolute
        /\ UNCHANGED <<uiHist, buttonVars, notUI>>

\* e.get_absolute_position() (the call of a widget on a parent cycle does
\* not return)
GetAbsolutePosition ==
    \E e \in ElemIds :
        LET r == get_absolute_position(elements, e)
        IN  /\ r.returned
            /\ lastAbsolute' = [elem |-> e, returned |-> TRUE, pos |-> r.pos]
            /\ UNCHANGED <<elements, uiHist, buttonVars, notUI>>

(***************************************************************************)
(* Button.handle_event                                                     *)
(***************************************************************************)

\* the events delivered to the button: left and right mouse buttons
ButtonEvents ==
    {[type |-> "MOUSEMOTION", code |-> 0]}
    \cup {[type |-> t, code |-> b] :
              t \in {"MOUSEBUTTONDOWN", "MOUSEBUTTONUP"}, b \in {1, 3}}
\* what pygame.mouse.get_pos() may return while the button handles an event
ButtonMousePositions == {<<2, 2>>, <<4, 3>>, <<5, 2>>, <<17, 17>>, <<19, 18>>}
\* Button.on_click: None or a callback
Callbacks == {None, "callback"}

\* Button.__init__ (enabled is set by UIElement.__init__)
Button_init ==
    [enabled |-> TRUE, is_hovered |-> FALSE, is_pressed |-> FALSE,
     on_click |-> None]

\* the mutant of handle_event that fires without the hover test
Button_handle_event_NoHoverTest(b, els, event, mouse_pos) ==
    IF ~b.enabled THEN [button |-> b, fired |-> FALSE]
    ELSE LET hovered == contains_point(els, "button", mouse_pos)
             h == [b EXCEPT !.is_hovered = hovered]
         IN  IF event.type = "MOUSEBUTTONDOWN" /\ event.code = 1
             THEN [button |-> IF hovered THEN [h EXCEPT !.is_pressed = TRUE]
                              ELSE h,
                   fired |-> FALSE]
             ELSE IF event.type = "MOUSEBUTTONUP" /\ event.code = 1
             THEN [button |-> [h EXCEPT !.is_pressed = FALSE],
                   fired |-> h.is_pressed /\ h.on_click # None]
             ELSE [button |-> h, fired |-> FALSE]

\* Button.handle_event: the button afterwards and whether on_click was called
Button_handle_event(b, els, event, mouse_pos) ==
    IF ~b.enabled THEN [button |-> b, fired |-> FALSE]
    ELSE LET hovered == contains_point(els, "button", mouse_pos)
             h == [b EXCEPT !.is_hovered = hovered]
         IN  IF event.type = "MOUSEBUTTONDOWN" /\ event.code = 1
             THEN [button |-> IF hovered THEN [h EXCEPT !.is_pressed = TRUE]
                              ELSE h,
                   fired |-> FALSE]
             ELSE IF event.type = "MOUSEBUTTONUP" /\ event.code = 1
             THEN [button |-> [h EXCEPT !.is_pressed = FALSE],
                   fired |-> h.is_pressed /\ hovered /\ h.on_click # None]
             ELSE [button |-> h, fired |-> FALSE]

\* the point lies in the box of the given centre and size, edges included
InsideBounds(point, centre, width, height) ==
    /\ 2 * centre[1] - width <= 2 * point[1]
    /\ 2 * point[1] <= 2 * centre[1] + width
    /\ 2 * centre[2] - height <= 2 * point[2]
    /\ 2 * point[2] <= 2 * centre[2] + height

NoButtonEvent ==
    [handled |-> FALSE, event |-> [type |-> None, code |-> 0],
     mouse_pos |-> <<0, 0>>, centre |-> <<0, 0>>, enabled |-> FALSE,
     was_armed |-> FALSE, armed |-> FALSE, fired |-> FALSE]

InitButton ==
    /\ button = Button_init
    /\ lastButtonEvent = NoButtonEvent

notButton == <<sceneVars, engineVars, inputVars, animVars, physVars,
               colliderVars, layoutVars, resourceVars>>

\* the button is put under the panel, the panel under the root
SetupAddChild ==
    \E pair \in {<<"panel", "button">>, <<"root", "panel">>} :
        /\ ~lastButtonEvent.handled
        /\ elements[pair[2]].parent = None
        /\ AddChildOf(pair[1], pair[2])

\* button.enabled = flag
SetEnabled ==
    \E flag \in BOOLEAN :
        /\ button' = [button EXCEPT !.enabled = flag]
        /\ UNCHANGED <<lastButtonEvent, uiVars, notButton>>

\* button.on_click = callback
SetOnClick ==
    \E cb \in Callbacks :
        /\ button' = [button EXCEPT !.on_click = cb]
        /\ UNCHANGED <<lastButtonEvent, uiVars, notButton>>

\* button.handle_event(event) with the mouse at mouse_pos; armed records a
\* handled left-button-down inside the bounds not yet followed by a handled
\* left-button-up
ButtonHandleEvent ==
    \E event \in ButtonEvents, mouse_pos \in ButtonMousePositions :
        LET r == Button_handle_event(button, elements, event, mouse_pos)
            centre == get_absolute_position(elements, "button").pos
            inside == InsideBounds(mouse_pos, centre, elements["button"].width,
                                   elements["button"].height)
            left == event.code = 1
            armed == IF ~button.enabled THEN lastButtonEvent.armed
                     ELSE IF left /\ event.type = "MOUSEBUTTONDOWN" /\ inside
                     THEN TRUE
                     ELSE IF left /\ event.type = "MOUSEBUTTONUP" THEN FALSE
                     ELSE lastButtonEvent.armed
        IN  /\ button' = r.button
            /\ lastButtonEvent' =
                   [handled |-> TRUE, event |-> event, mouse_pos |-> mouse_pos,
                    centre |-> centre, enabled |-> button.enabled,
                    was_armed |-> lastButtonEvent.armed, armed |-> armed,
                    fired |-> r.fired]
            /\ UNCHANGED <<uiVars, notButton>>

(***************************************************************************)
(* Panel with a VerticalLayout or a HorizontalLayout                       *)
(***************************************************************************)

\* bound on the children of the panel
MaxChildren == 2
\* width and height of the plain widgets added
ChildSizes == {<<10, 20>>, <<40, 30>>}
\* get_width() and get_height() of a label's rendered text
TextSizes == {<<40, 12>>}
\* the Layout classes a panel's layout is constructed from
LayoutKinds == {"vertical", "horizontal"}
\* where a widget is constructed, before any layout pass
ChildPosition == <<QInt(3), QInt(4)>>
\* values assigned to Layout.spacing: the default of Layout.__init__ and
\* another one
Spacings == {5, 2}

QNeg(a) == <<-a[1], a[2]>>

QHalf(n) == QDiv(QInt(n), QInt(2))

\* sum(child.height for child in children), sum(child.width ...)
RECURSIVE SumHeights(_)
SumHeights(children) ==
    IF children = <<>> THEN 0
    ELSE Head(children).height + SumHeights(Tail(children))

RECURSIVE SumWidths(_)
SumWidths(children) ==
    IF children = <<>> THEN 0
    ELSE Head(children).width + SumWidths(Tail(children))

\* the loop of VerticalLayout.update over the children from index i on
RECURSIVE VerticalLoop(_, _, _, _)
VerticalLoop(children, i, current_y, spacing) ==
    IF i > Len(children) THEN children
    ELSE VerticalLoop(
             [children EXCEPT ![i].x = QZero,
                              ![i].y = QAdd(current_y, QHalf(children[i].height))],
             i + 1,
             QAdd(current_y, QInt(children[i].height + spacing)),
             spacing)

\* the loop of HorizontalLayout.update
RECURSIVE HorizontalLoop(_, _, _, _)
HorizontalLoop(children, i, current_x, spacing) ==
    IF i > Len(children) THEN children
    ELSE HorizontalLoop(
             [children EXCEPT ![i].x = QAdd(current_x, QHalf(children[i].width)),
                              ![i].y = QZero],
             i + 1,
             QAdd(current_x, QInt(children[i].width + spacing)),
             spacing)

\* the mutant of VerticalLayout.update that centres the heights alone
VerticalLayout_update_HeightsOnly(children, spacing) ==
    IF children = <<>> THEN children
    ELSE VerticalLoop(children, 1, QNeg(QHalf(SumHeights(children))), spacing)

\* VerticalLayout.update
VerticalLayout_update(children, spacing) ==
    IF children = <<>> THEN children
    ELSE LET total_height == SumHeights(children)
             total_spacing == spacing * (Len(children) - 1)
         IN  VerticalLoop(children, 1,
                          QAdd(QNeg(QHalf(total_height)),
                               QNeg(QHalf(total_spacing))),
                          spacing)

\* HorizontalLayout.update
HorizontalLayout_update(children, spacing) ==
    IF children = <<>> THEN children
    ELSE LET total_width == SumWidths(children)
             total_spacing == spacing * (Len(children) - 1)
         IN  HorizontalLoop(children, 1,
                            QAdd(QNeg(QHalf(total_width)),
                                 QNeg(QHalf(total_spacing))),
                            spacing)

\* UIElement(x, y, width, height) as a child of the panel
Widget_init(pos, width, height) ==
    [kind |-> "UIElement", x |-> pos[1], y |-> pos[2],
     width |-> width, height |-> height, text_size |-> <<0, 0>>]

\* Label(x, y, text): the default size of UIElement.__init__; text_size is
\* what rendering the text gives
Label_init(pos, text_size) ==
    [kind |-> "Label", x |-> pos[1], y |-> pos[2],
     width |-> 100, height |-> 50, text_size |-> text_size]

\* child.render(screen): Label.render takes its size from the rendered text,
\* Entity.render does nothing (visible is True, as constructed)
Child_render(child) ==
    IF child.kind = "Label"
    THEN [child EXCEPT !.width = child.text_size[1],
                       !.height = child.text_size[2]]
    ELSE child

\* Layout.__init__ of VerticalLayout(panel) or HorizontalLayout(panel): the
\* spacing is an attribute of the Layout object and starts at 5
Layout_init(kind) == [kind |-> kind, spacing |-> 5]

\* Panel.layout = None: no Layout object, hence no spacing
LayoutNone == [kind |-> None]

\* layout.update(): the update of the layout's class on the panel's children
\* with the layout's own spacing
Layout_update(layout, children) ==
    IF layout.kind = "vertical"
    THEN VerticalLayout_update(children, layout.spacing)
    ELSE IF layout.kind = "horizontal"
    THEN HorizontalLayout_update(children, layout.spacing)
    ELSE children

\* Panel.render: the layout pass if a layout is assigned, then the children
\* in list order
Panel_render(p) ==
    LET laid == IF p.layout.kind # None THEN Layout_update(p.layout, p.children)
                ELSE p.children
    IN  [p EXCEPT !.children = [i \in 1..Len(laid) |-> Child_render(laid[i])]]

NoLayout == [kind |-> None, children |-> <<>>, spacing |-> 0]

\* Panel.__init__
InitLayout ==
    /\ panel = [children |-> <<>>, layout |-> LayoutNone]
    /\ lastLayout = NoLayout

notLayout == <<sceneVars, engineVars, inputVars, animVars, physVars,
               colliderVars, uiVars, buttonVars, resourceVars>>

\* panel.add_child(UIElement(3, 4, width, height)): a widget of its own
PanelAddChild ==
    \E size \in ChildSizes :
        /\ Len(panel.children) < MaxChildren
        /\ panel' = [panel EXCEPT !.children =
                        Append(@, Widget_init(ChildPosition, size[1], size[2]))]
        /\ lastLayout' = NoLayout
        /\ UNCHANGED notLayout

\* panel.add_child(Label(3, 4, text))
PanelAddLabel ==
    \E ts \in TextSizes :
        /\ Len(panel.children) < MaxChildren
        /\ panel' = [panel EXCEPT !.children =
                        Append(@, Label_init(ChildPosition, ts))]
        /\ lastLayout' = NoLayout
        /\ UNCHANGED notLayout

\* panel.remove_child(panel.children[i])
PanelRemoveChild ==
    \E i \in 1..Len(panel.children) :
        /\ panel' = [panel EXCEPT !.children =
                        SubSeq(@, 1, i - 1) \o SubSeq(@, i + 1, Len(@))]
        /\ lastLayout' = NoLayout
        /\ UNCHANGED notLayout

\* panel.layout.spacing = sp, on the Layout object the panel holds
SetSpacing ==
    \E sp \in Spacings :
        /\ panel.layout.kind # None
        /\ panel' = [panel EXCEPT !.layout.spacing = sp]
        /\ lastLayout' = NoLayout
        /\ UNCHANGED notLayout

\* panel.layout = None, VerticalLayout(panel) or HorizontalLayout(panel): a
\* Layout object newly constructed, with the spacing of Layout.__init__
SetLayout ==
    \E kind \in LayoutKinds \cup {None} :
        /\ panel' = [panel EXCEPT !.layout = IF kind = None THEN LayoutNone
                                             ELSE Layout_init(kind)]
        /\ lastLayout' = NoLayout
        /\ UNCHANGED notLayout

\* panel.layout.update() on a VerticalLayout
VerticalLayoutUpdate ==
    LET laid == VerticalLayout_update(panel.children, panel.layout.spacing)
    IN  /\ panel.layout.kind = "vertical"
        /\ panel' = [panel EXCEPT !.children = laid]
        /\ lastLayout' = [kind |-> "vertical", children |-> laid,
                          spacing |-> panel.layout.spacing]
        /\ UNCHANGED notLayout

\* panel.layout.update() on a HorizontalLayout
HorizontalLayoutUpdate ==
    LET laid == HorizontalLayout_update(panel.children, panel.layout.spacing)
    IN  /\ panel.layout.kind = "horizontal"
        /\ panel' = [panel EXCEPT !.children = laid]
        /\ lastLayout' = [kind |-> "horizontal", children |-> laid,
                          spacing |-> panel.layout.spacing]
        /\ UNCHANGED notLayout

\* panel.render(screen): the history keeps the children as the layout pass
\* left them, before the children were rendered
PanelRender ==
    /\ panel' = Panel_render(panel)
    /\ lastLayout' =
           IF panel.layout.kind = None THEN NoLayout
           ELSE [kind |-> panel.layout.kind,
                 children |-> Layout_update(panel.layout, panel.children),
                 spacing |-> panel.layout.spacing]
    /\ UNCHANGED notLayout

(***************************************************************************)
(* ResourceManager and Sprite.load_texture                                 *)
(***************************************************************************)

\* resource names, the three tables, and the bound on the load calls
ResourceNames == {"hero", "tile"}
ResourceKinds == {"textures", "sounds", "fonts"}
MaxLoads == 3
\* get_width() and get_height() of a loaded texture
TextureSize == <<16, 16>>
\* Sprite.texture_name: the default "", a name that may be loaded
TextureNames == {"", "hero"}

\* the object the backing store returns on its n-th read; no object
Handle(n) == <<n>>
NoHandle == <<>>

\* ResourceManager.__init__
ResourceManager_init == [k \in ResourceKinds |-> <<>>]

\* self.<kind>[name] = handle
Store(rm, kind, name, handle) ==
    [rm EXCEPT ![kind] = [n \in DOMAIN @ \cup {name} |->
                             IF n = name THEN handle ELSE @[n]]]

\* load_texture, load_sound, load_font: read the backing store, then store
\* the object read under the name (read is the object the store returns)
load_resource(rm, kind, name, read) == Store(rm, kind, name, read)

\* Sprite.__init__
Sprite_init(texture_name) ==
    [scene |-> None, texture_name |-> texture_name, texture |-> NoHandle,
     width |-> 0, height |-> 0]

\* Sprite.load_texture: the sprite afterwards, and whether the call raised
\* (None has no attribute resource_manager)
Sprite_load_texture(sp, engine, rm) ==
    IF sp.scene # None /\ sp.texture_name # ""
    THEN IF engine = None
         THEN [sprite |-> sp, raised |-> TRUE]
         ELSE LET texture ==
                      IF sp.texture_name \in DOMAIN rm["textures"]
                      THEN rm["textures"][sp.texture_name]
                      ELSE NoHandle
              IN  [sprite |->
                       IF texture # NoHandle
                       THEN [sp EXCEPT !.texture = texture,
                                       !.width = TextureSize[1],
                                       !.height = TextureSize[2]]
                       ELSE [sp EXCEPT !.texture = texture],
                   raised |-> FALSE]
    ELSE [sprite |-> sp, raised |-> FALSE]

NoLookup == [called |-> FALSE, miss |-> FALSE, raised |-> FALSE]

\* ResourceManager.__init__, Sprite.__init__, Scene.__init__
InitResource ==
    /\ resource_manager = ResourceManager_init
    /\ storeLog = <<>>
    /\ sprite = Sprite_init("")
    /\ scene_engine = None
    /\ lastLookup = NoLookup

notResourceScene == <<inputVars, animVars, physVars, colliderVars, uiVars,
                      buttonVars, layoutVars>>
notResource == <<sceneVars, engineVars, notResourceScene>>

\* resource_manager.load_texture / load_sound / load_font (name, path)
LoadResource ==
    \E kind \in ResourceKinds, name \in ResourceNames :
        /\ Len(storeLog) < MaxLoads
        /\ resource_manager' =
               load_resource(resource_manager, kind, name,
                             Handle(Len(storeLog) + 1))
        /\ storeLog' = Append(storeLog, [kind |-> kind, name |-> name])
        /\ UNCHANGED <<sprite, scene_engine, lastLookup, notResource>>

\* sprite.texture_name = name
SetTextureName ==
    \E name \in TextureNames :
        /\ sprite' = [sprite EXCEPT !.texture_name = name]
        /\ UNCHANGED <<resource_manager, storeLog, scene_engine, lastLookup,
                       notResource>>

\* scene.add_entity(sprite): self.entities.append(entity); entity.scene = self
SceneAddSprite ==
    /\ Len(entities) < MaxEntities
    /\ entities' = add_entity(entities, "sprite")
    /\ sprite' = [sprite EXCEPT !.scene = "scene"]
    /\ UNCHANGED <<resource_manager, storeLog, scene_engine, lastLookup,
                   lastTraversal, engineVars, notResourceScene>>

\* engine.add_scene(name, scene): self.scenes[name] = scene; scene.engine = self
EngineAddScene ==
    \E name \in SceneNames :
        /\ scenes' = add_scene(scenes, name, "scene")
        /\ scene_engine' = "engine"
        /\ UNCHANGED <<resource_manager, storeLog, sprite, lastLookup,
                       current_scene, lastSwitch, loopVars, sceneVars,
                       notResourceScene>>

\* sprite.load_texture(); a miss is a call that looks the name up and finds
\* no texture loaded under it
SpriteLoadTexture ==
    LET r == Sprite_load_texture(sprite, scene_engine, resource_manager)
        looks == sprite.scene # None /\ sprite.texture_name # ""
        loaded == /\ scene_engine # None
                  /\ sprite.texture_name \in DOMAIN resource_manager["textures"]
    IN  /\ sprite' = r.sprite
        /\ lastLookup' = [called |-> TRUE, miss |-> looks /\ ~loaded,
                          raised |-> r.raised]
        /\ UNCHANGED <<resource_manager, storeLog, scene_engine, notResource>>

(***************************************************************************)
(* Specifications                                                          *)
(***************************************************************************)

Init ==
    /\ InitScene /\ InitEngine /\ InitInput /\ InitAnim /\ InitPhysics
    /\ InitCollide /\ InitUI /\ InitButton /\ InitLayout /\ InitResource

\* one scene: membership changes and traversals
NextScene == AddEntity \/ RemoveEntity \/ SceneUpdate \/ SceneRender

SpecScene == Init /\ [][NextScene]_vars

\* the scene table and scene switching
NextEngine == AddScene \/ SetCurrentScene

SpecEngine == Init /\ [][NextEngine]_vars

\* set-up before run() is entered: one add_scene and one set_current_scene
SetupAddScene == pc = "idle" /\ scenes = <<>> /\ AddScene

SetupSetCurrentScene == pc = "idle" /\ lastSwitch = NoSwitch /\ SetCurrentScene

\* set-up followed by run()
NextLoop ==
    \/ SetupAddScene \/ SetupSetCurrentScene
    \/ Run \/ LoopEnter \/ LoopExit
    \/ HandleEvents \/ Update \/ Render \/ Tick

SpecLoop == Init /\ [][NextLoop]_vars

\* the frames of an InputManager
NextInput == InputUpdate \/ InputHandleEvent

SpecInput == Init /\ [][NextInput]_vars

\* one AnimatedSprite
NextAnim == AddAnimation \/ PlayAnimation \/ AnimUpdate

SpecAnim == Init /\ [][NextAnim]_vars

\* one PhysicsBody and its entity
NextPhysics == SetStatic \/ SetPosition \/ ApplyForce \/ PhysicsUpdate

SpecPhysics == Init /\ [][NextPhysics]_vars

\* two collision shapes and the tests between them
NextCollide == NewBoxCollider \/ NewCircleCollider \/ SetOffset \/ CollidesWith

SpecCollide == Init /\ [][NextCollide]_vars

\* the widget tree
NextUI == AddChild \/ RemoveChild \/ GetAbsolutePosition

SpecUI == Init /\ [][NextUI]_vars

\* one Button, alone or under the panel and the root
NextButton == SetupAddChild \/ SetEnabled \/ SetOnClick \/ ButtonHandleEvent

SpecButton == Init /\ [][NextButton]_vars

\* one panel, its children and its layout passes
NextLayout ==
    \/ PanelAddChild \/ PanelAddLabel \/ PanelRemoveChild
    \/ SetSpacing \/ SetLayout
    \/ VerticalLayoutUpdate \/ HorizontalLayoutUpdate \/ PanelRender

SpecLayout == Init /\ [][NextLayout]_vars

\* the resource tables and one sprite that looks its texture up
NextResource ==
    \/ LoadResource \/ SetTextureName \/ SceneAddSprite \/ EngineAddScene
    \/ SpriteLoadTexture

SpecResource == Init /\ [][NextResource]_vars

(***************************************************************************)
(* Properties                                                              *)
(***************************************************************************)

\* C1 (as claimed): a Scene.update or Scene.render call invokes the callback
\* of each entity that was in the list when the call started exactly once, in
\* list order, whatever add_entity / remove_entity calls the callbacks make.
C1_TraversalVisitsSnapshot ==
    lastTraversal.kind # None =>
        lastTraversal.visited = lastTraversal.snapshot

\* C2: a set_current_scene call with a registered name makes exactly the calls
\* on_exit(outgoing), on_enter(incoming), in that order, when a scene is
\* current, and exactly on_enter(incoming) when none is.
C2_ExitOnceThenEnterOnce ==
    (lastSwitch.name # None /\ lastSwitch.registered) =>
        LET made == [i \in 1..Len(lastSwitch.calls) |->
                        <<lastSwitch.calls[i].fn, lastSwitch.calls[i].scene>>]
        IN  IF lastSwitch.outgoing # None
            THEN made = << <<"on_exit", lastSwitch.outgoing>>,
                           <<"on_enter", lastSwitch.incoming>> >>
            ELSE made = << <<"on_enter", lastSwitch.incoming>> >>

C2_Witness ==
    /\ lastSwitch.registered
    /\ lastSwitch.outgoing \in SceneIds
    /\ lastSwitch.incoming \in SceneIds \ {lastSwitch.outgoing}
    /\ Len(lastSwitch.calls) = 2
    /\ current_scene = lastSwitch.incoming

\* C3: a set_current_scene call with a name that is not registered leaves
\* current_scene as it was and calls neither on_exit nor on_enter.
C3_UnknownNameIsNoOp ==
    (lastSwitch.name # None /\ ~lastSwitch.registered) =>
        /\ current_scene = lastSwitch.outgoing
        /\ lastSwitch.calls = <<>>

C3_Witness ==
    /\ lastSwitch.name \in SceneNames \ DOMAIN scenes
    /\ ~lastSwitch.registered
    /\ current_scene \in SceneIds

\* C4: when on_exit is invoked engine.current_scene is still the outgoing
\* scene, and when on_enter is invoked it is already the incoming scene.
C4_EnterAfterCommit ==
    \A i \in 1..Len(lastSwitch.calls) :
        LET c == lastSwitch.calls[i]
        IN  /\ c.fn = "on_exit" => c.current = lastSwitch.outgoing
            /\ c.fn = "on_enter" => c.current = lastSwitch.incoming

C4_Witness ==
    /\ lastSwitch.registered
    /\ lastSwitch.outgoing \in SceneIds
    /\ lastSwitch.incoming \in SceneIds \ {lastSwitch.outgoing}
    /\ \E i \in 1..Len(lastSwitch.calls) : lastSwitch.calls[i].fn = "on_exit"
    /\ \E i \in 1..Len(lastSwitch.calls) : lastSwitch.calls[i].fn = "on_enter"

\* C5: an iteration performs _handle_events, _update, _render in that order,
\* each once; once QUIT has been seen running is false, no later iteration
\* starts, and run() returns only after that iteration's update and render.
C5_LoopOrderAndQuit ==
    /\ pc = "_handle_events" => iterLog = <<>>
    /\ pc = "_update" => iterLog = SubSeq(Phases, 1, 1)
    /\ pc = "_render" => iterLog = SubSeq(Phases, 1, 2)
    /\ pc = "tick" => iterLog = Phases
    /\ (pc \in {"while", "done"} /\ frame > 0) => iterLog = Phases
    /\ quitFrame # 0 => (~running /\ frame = quitFrame)
    /\ pc = "done" => (quitFrame # 0 /\ iterLog = Phases)

C5_Witness ==
    /\ pc = "done"
    /\ quitFrame = MaxFrames
    /\ frame = MaxFrames
    /\ iterLog = Phases
    /\ ~running

\* C6: is_key_down(k) / is_key_up(k) hold exactly while a key-down / key-up
\* event for k is among the events folded in since the last
\* InputManager.update, and is_key_pressed(k) holds exactly from a key-down
\* of k until the next key-up of k.
C6_EdgeAndLevelKeys ==
    \A k \in Keys :
        /\ is_key_down(input_manager, k) <=>
               InList(frameEvents, [type |-> "KEYDOWN", code |-> k])
        /\ is_key_up(input_manager, k) <=>
               InList(frameEvents, [type |-> "KEYUP", code |-> k])
        /\ is_key_pressed(input_manager, k) <=> lastKeyEvent[k] = "KEYDOWN"

\* a key held from an earlier frame while another key is released in this one
C6_Witness ==
    \E k, j \in Keys :
        /\ k # j
        /\ is_key_pressed(input_manager, k)
        /\ ~is_key_down(input_manager, k)
        /\ is_key_up(input_manager, j)
        /\ ~is_key_pressed(input_manager, j)

\* what lines 293-303 prescribe for one update of clip a with delta time dt:
\* the frame index and accumulator that must result
SteppedOnce(a, b, dt) ==
    IF a.time_accumulated + dt >= a.frame_duration
    THEN /\ b.time_accumulated = 0
         /\ b.current_frame =
                IF a.current_frame + 1 >= a.frame_count
                THEN (IF a.is_looping THEN 0 ELSE a.frame_count - 1)
                ELSE a.current_frame + 1
    ELSE /\ b.current_frame = a.current_frame
         /\ b.time_accumulated = a.time_accumulated + dt

\* the step is an update call on a sprite with an active clip
IsUpdateOfActiveClip ==
    /\ lastAnimOp'.op = "update"
    /\ HasActiveClip

\* C7, every step: an update of a playing, looping clip whose delta time
\* equals frame_duration moves current_frame to (current_frame + 1) mod
\* frame_count and leaves the clip playing.
C7_FullTickStep ==
    (/\ IsUpdateOfActiveClip
     /\ ActiveClip.is_playing
     /\ ActiveClip.is_looping
     /\ lastAnimOp'.dt = ActiveClip.frame_duration)
    => /\ animations'[current_animation].current_frame =
              (ActiveClip.current_frame + 1) % ActiveClip.frame_count
       /\ animations'[current_animation].is_playing

\* C7, from the start: after t updates of a played, looping clip, all with
\* delta time equal to frame_duration, current_frame is t mod frame_count
\* (1, 2, 3, 0, 1 for frame_count 4) and the clip is still playing.
C7_FullTickCount ==
    (/\ HasActiveClip
     /\ animHist.played
     /\ ActiveClip.is_looping
     /\ animHist.full = animHist.ticks)
    => /\ ActiveClip.current_frame = animHist.ticks % ActiveClip.frame_count
       /\ ActiveClip.is_playing

C10_StaticBodyNeverMoves ==
    body.is_static => Motion(body, entity) = physHist.snapshot

\* a body made static while moving, then updated and pushed
C10_Witness ==
    /\ body.is_static
    /\ physHist.forces >= 1
    /\ physHist.updates >= 1
    /\ body.velocity # <<QZero, QZero>>
    /\ entity.y # QZero

\* an update call on a body that is not static
IsUpdateOfMovingBody ==
    /\ physHist'.last = "update"
    /\ physHist'.ops = physHist.ops + 1
    /\ ~body.is_static

\* after an update of a non-static body the acceleration is (0, 0)
C11_AccelerationIsReset ==
    (physHist.last = "update" /\ ~body.is_static) =>
        body.acceleration = <<QZero, QZero>>

\* an update that finds no acceleration accumulated changes the horizontal
\* velocity by friction only: the forces of earlier frames act no more
C11_NoForceNoPush ==
    (IsUpdateOfMovingBody /\ body.acceleration = <<QZero, QZero>>) =>
        body'.velocity[1] =
            QMul(body.velocity[1], QAdd(QInt(1), QMul(QInt(-1), Friction)))

\* C11: after every PhysicsBody.update on a non-static body the acceleration
\* is (0, 0), whatever forces were applied since the previous update, so the
\* forces applied between two updates act on the velocity in one integration
\* step only.
C11_ForcesActInOneStep ==
    [][C11_NoForceNoPush]_vars /\ []C11_AccelerationIsReset

\* an update has consumed a horizontal push and left the body moving
C11_Witness ==
    /\ physHist.last = "update"
    /\ ~body.is_static
    /\ physHist.pending[1] # QZero
    /\ body.velocity[1] # QZero
    /\ body.acceleration = <<QZero, QZero>>

\* the centre of a shape: the entity's position moved by the shape's offset
Centre(shape) == <<shape.x + shape.offset_x, shape.y + shape.offset_y>>

\* the squared distance of two points
Dist2(p, q) == (p[1] - q[1]) * (p[1] - q[1]) + (p[2] - q[2]) * (p[2] - q[2])

IsCircleCircle ==
    /\ lastCollide.called
    /\ lastCollide.self.kind = "CircleCollider"
    /\ lastCollide.other.kind = "CircleCollider"

\* C12 (as claimed): CircleCollider.collides_with between two circles is true
\* exactly when the distance between the two centres is strictly less than
\* the sum of the radii.
C12_CentreDistanceDecides ==
    IsCircleCircle =>
        LET sum == lastCollide.self.radius + lastCollide.other.radius
        IN  lastCollide.result <=>
                Dist2(Centre(lastCollide.self), Centre(lastCollide.other))
                    < sum * sum

\* what the code decides on: the distance of the two entities, offsets unread
C12_EntityDistanceDecides ==
    IsCircleCircle =>
        LET sum == lastCollide.self.radius + lastCollide.other.radius
        IN  lastCollide.result <=>
                Dist2(<<lastCollide.self.x, lastCollide.self.y>>,
                      <<lastCollide.other.x, lastCollide.other.y>>) < sum * sum

IsCrossType ==
    /\ lastCollide.called
    /\ lastCollide.self.kind # lastCollide.other.kind

\* C13: collides_with between a BoxCollider and a CircleCollider, either way
\* round and at any positions, sizes and offsets, returns false.
C13_CrossTypeNeverCollides ==
    IsCrossType => ~lastCollide.result

\* a box asked about a circle that lies on it, and a circle about such a box
C13_WitnessBox ==
    /\ IsCrossType
    /\ lastCollide.self.kind = "BoxCollider"
    /\ colliderect(get_bounds(lastCollide.self), get_bounds(lastCollide.other))
    /\ ~lastCollide.result

C13_Witness ==
    /\ IsCrossType
    /\ lastCollide.self.kind = "CircleCollider"
    /\ Centre(lastCollide.self) = Centre(lastCollide.other)
    /\ ~lastCollide.result

IsLeftButtonUp ==
    /\ lastButtonEvent.handled
    /\ lastButtonEvent.enabled
    /\ lastButtonEvent.event = [type |-> "MOUSEBUTTONUP", code |-> 1]

MouseWasInside ==
    InsideBounds(lastButtonEvent.mouse_pos, lastButtonEvent.centre,
                 elements["button"].width, elements["button"].height)

\* C14: for an enabled Button, a left-button-up fires on_click only if the
\* button was armed by an earlier left-button-down inside its bounds and the
\* mouse is inside the bounds at the up event, and after every left-button-up
\* is_pressed is false whether or not the click fired; is_pressed is true
\* only while the button is armed.
C14_ClickNeedsArmedAndHovered ==
    /\ IsLeftButtonUp =>
           /\ lastButtonEvent.fired =>
                  (lastButtonEvent.was_armed /\ MouseWasInside)
           /\ ~button.is_pressed
    /\ button.is_pressed => lastButtonEvent.armed

\* left-button-down inside, then left-button-up outside, a callback being
\* set: no click, and is_pressed is false
C14_Witness ==
    /\ IsLeftButtonUp
    /\ lastButtonEvent.was_armed
    /\ ~MouseWasInside
    /\ button.on_click # None
    /\ ~lastButtonEvent.fired
    /\ ~button.is_pressed

\* a click fired on a button that sits under the panel and the root
C14_WitnessFired ==
    /\ IsLeftButtonUp
    /\ lastButtonEvent.fired
    /\ lastButtonEvent.centre = <<17, 17>>

\* the widget and its ancestors: what the parent references reach from e
AncestorsOrSelf(e) ==
    LET Up(S) == S \cup ({elements[x].parent : x \in S} \ {None})
    IN  Up(Up(Up({e})))

\* the parent chain of e ends: some widget on it has no parent
FiniteChain(e) == \E top \in AncestorsOrSelf(e) : elements[top].parent = None

RECURSIVE SumX(_)
SumX(S) ==
    IF S = {} THEN 0
    ELSE LET c == CHOOSE c \in S : TRUE IN elements[c].x + SumX(S \ {c})

RECURSIVE SumY(_)
SumY(S) ==
    IF S = {} THEN 0
    ELSE LET c == CHOOSE c \in S : TRUE IN elements[c].y + SumY(S \ {c})

\* C15: get_absolute_position of a widget whose parent chain is finite
\* returns the component-wise sum of the local (x, y) of the widget and of
\* every ancestor; with no parent that is the widget's own (x, y).
C15_AbsoluteIsSumOfChain ==
    /\ lastAbsolute.elem # None =>
           lastAbsolute.pos = <<SumX(AncestorsOrSelf(lastAbsolute.elem)),
                                SumY(AncestorsOrSelf(lastAbsolute.elem))>>
    /\ \A e \in ElemIds :
           FiniteChain(e) => get_absolute_position(elements, e).returned

\* root (10, 10), panel (5, 5) under it, button (2, 2) under the panel:
\* the button is at (17, 17)
C15_Witness ==
    /\ lastAbsolute.elem = "button"
    /\ elements["button"].parent = "panel"
    /\ elements["panel"].parent = "root"
    /\ elements["root"].parent = None
    /\ lastAbsolute.pos = <<17, 17>>

\* a - b
QSub(a, b) == QAdd(a, QNeg(b))

\* the children as the last Layout.update call left them
Laid == lastLayout.children

\* half the extent of the stack: (sum of the sizes + spacing * (k - 1)) / 2,
\* with the spacing of the layout that was updated
HalfExtent(total) == QHalf(total + lastLayout.spacing * (Len(Laid) - 1))

\* the stack along Y: the edges of child i are y -+ height / 2
StackedAlongY ==
    LET c == Laid
        k == Len(c)
        Top(i) == QSub(c[i].y, QHalf(c[i].height))
        Bottom(i) == QAdd(c[i].y, QHalf(c[i].height))
    IN  /\ \A i \in 1..k : c[i].x = QZero
        /\ \A i \in 1..(k - 1) : QSub(Top(i + 1), Bottom(i)) = QInt(lastLayout.spacing)
        /\ Top(1) = QNeg(HalfExtent(SumHeights(c)))
        /\ Bottom(k) = HalfExtent(SumHeights(c))

\* the stack along X: the edges of child i are x -+ width / 2
StackedAlongX ==
    LET c == Laid
        k == Len(c)
        Left(i) == QSub(c[i].x, QHalf(c[i].width))
        Right(i) == QAdd(c[i].x, QHalf(c[i].width))
    IN  /\ \A i \in 1..k : c[i].y = QZero
        /\ \A i \in 1..(k - 1) : QSub(Left(i + 1), Right(i)) = QInt(lastLayout.spacing)
        /\ Left(1) = QNeg(HalfExtent(SumWidths(c)))
        /\ Right(k) = HalfExtent(SumWidths(c))

\* C16: after VerticalLayout.update on a panel with k >= 1 children every
\* child has x = 0, the gap between the bottom edge of a child and the top
\* edge of the next is the spacing, and the stack is centred on the panel's
\* local origin; HorizontalLayout.update does the same along X with the
\* widths and y = 0. The update may be called directly or by Panel.render.
C16_LayoutStacksAndCentres ==
    /\ (lastLayout.kind = "vertical" /\ Len(Laid) >= 1) => StackedAlongY
    /\ (lastLayout.kind = "horizontal" /\ Len(Laid) >= 1) => StackedAlongX

\* heights 20 and 30 with spacing 5: centres at -17.5 and 12.5
C16_Witness ==
    /\ lastLayout.kind = "vertical"
    /\ lastLayout.spacing = 5
    /\ Len(Laid) = 2
    /\ Laid[1].height = 20
    /\ Laid[2].height = 30
    /\ Laid[1].y = <<-35, 2>>
    /\ Laid[2].y = <<25, 2>>

\* Panel.render has laid out a label at its size before rendering and then
\* resized it to its text
C16_WitnessRender ==
    /\ lastLayout.kind = "vertical"
    /\ Len(Laid) = 2
    /\ Laid[1].kind = "Label"
    /\ Laid[1].height = 50
    /\ panel.children[1].height = 12
    /\ panel.children[1].y = Laid[1].y

\* C17 (as claimed): a lookup miss never raises; Sprite.load_texture for a
\* texture name that is not loaded completes without an error, whether or
\* not the sprite's scene has been added to an engine.
C17_LookupMissNeverRaises ==
    (lastLookup.called /\ lastLookup.miss) => ~lastLookup.raised

\* the backing-store reads made for a name of a table
ReadsOf(kind, name) ==
    {i \in 1..Len(storeLog) : storeLog[i] = [kind |-> kind, name |-> name]}

\* C18 (as claimed): over any sequence of load_texture / load_sound /
\* load_font calls the backing store is read at most once per name, and the
\* handle stored under a name is the one of its first load.
C18_StoreReadOncePerName ==
    \A kind \in ResourceKinds, name \in ResourceNames :
        /\ Cardinality(ReadsOf(kind, name)) <= 1
        /\ name \in DOMAIN resource_manager[kind] =>
               resource_manager[kind][name] =
                   Handle(CHOOSE i \in ReadsOf(kind, name) :
                              \A j \in ReadsOf(kind, name) : i <= j)

\* C19 (as claimed): after any sequence of add_child and remove_child calls
\* every widget is in the children list of at most one widget, and c is in
\* p.children exactly when c.parent is p.
C19_SingleParentTree ==
    /\ \A c \in ElemIds :
           Cardinality({q \in ElemIds : InList(elements[q].children, c)}) <= 1
    /\ \A q \in ElemIds, c \in ElemIds :
           InList(elements[q].children, c) <=> elements[c].parent = q

\* an add_animation call: on a sprite whose active clip name is not set the
\* clip added becomes the active one, playing from frame 0; otherwise the
\* active name stays
C20_AddStep ==
    lastAnimOp'.op = "add_animation" =>
        IF current_animation = None
        THEN /\ current_animation' = lastAnimOp'.name
             /\ animations'[lastAnimOp'.name].is_playing
             /\ animations'[lastAnimOp'.name].current_frame = 0
             /\ animations'[lastAnimOp'.name].time_accumulated = 0
        ELSE current_animation' = current_animation

C20_ActiveIsKey ==
    current_animation # None => current_animation \in DOMAIN animations

\* C20 (as claimed): the first add_animation on a sprite with no active clip
\* makes that clip the active one with is_playing true, current_frame 0 and
\* time_accumulated 0; later add_animation calls under other names do not
\* change which clip is active; and after any add_animation /
\* play_animation / update calls the active clip name, when set, is a key of
\* the clip mapping.
C20_FirstClipAutoPlays ==
    [][C20_AddStep]_vars /\ []C20_ActiveIsKey

\* what the code keeps: the same with "no active clip" read as the test of
\* add_animation reads it, a current_animation that is falsy; a first clip
\* named "" is played and then displaced by the next clip added
C20_AddStepByFalsiness ==
    lastAnimOp'.op = "add_animation" =>
        IF Falsy(current_animation)
        THEN /\ current_animation' = lastAnimOp'.name
             /\ animations'[lastAnimOp'.name].is_playing
             /\ animations'[lastAnimOp'.name].current_frame = 0
             /\ animations'[lastAnimOp'.name].time_accumulated = 0
        ELSE current_animation' = current_animation

C20_TruthyNameStays ==
    [][C20_AddStepByFalsiness]_vars /\ []C20_ActiveIsKey

\* the frame rectangle of the active clip at its current_frame
ActiveFrameRect == ActiveClip.frames[ActiveClip.current_frame + 1]

\* C21 (as claimed): after every AnimatedSprite.update call on a sprite with
\* an active clip, src_rect is the frame rectangle of the active clip at its
\* current_frame, whatever add_animation, play_animation and update calls
\* came before.
C21_SrcRectIsCurrentFrame ==
    (lastAnimOp.op = "update" /\ HasActiveClip) =>
        src_rect = ActiveFrameRect

\* what the code keeps: the rectangle is current after an update of a clip
\* that play_animation started, ticks after it has stopped included
C21_PlayedClipRectIsCurrent ==
    (lastAnimOp.op = "update" /\ HasActiveClip /\ animHist.played) =>
        src_rect = ActiveFrameRect

\* C22: every clip of the sprite with frame_count >= 1 has
\* 0 <= current_frame <= frame_count - 1 after any add_animation,
\* play_animation and update calls, so frames[current_frame] is in range.
C22_CurrentFrameInRange ==
    \A name \in DOMAIN animations :
        animations[name].frame_count >= 1 =>
            /\ 0 <= animations[name].current_frame
            /\ animations[name].current_frame <= animations[name].frame_count - 1
            /\ animations[name].current_frame + 1 \in DOMAIN animations[name].frames

\* a non-looping clip of four frames has run to its last frame and stopped
C22_Witness ==
    /\ lastAnimOp.op = "update"
    /\ HasActiveClip
    /\ ActiveClip.frame_count = 4
    /\ ActiveClip.current_frame = 3
    /\ ~ActiveClip.is_looping
    /\ ~ActiveClip.is_playing

====
